---------------------------- MODULE Spec2Model ----------------------------
(***************************************************************************)
(* Model of the Conway governance test helpers of cardano-node-tests:      *)
(*   cardano_node_tests/tests/tests_conway/conway_common.py                *)
(*                                                                         *)
(* The module holds several specifications over one set of variables:      *)
(*   SpecVote  the two vote-pattern functions applied to an index          *)
(*   Spec      the governance routines cast_vote,                          *)
(*             propose_change_constitution, propose_pparams_update         *)
(*             and resign_ccs run against a ledger                         *)
(*   SpecRem   possible_rem_issue applied to a governance state            *)
(*   SpecPool  get_registered_pool_user and its fixture cache              *)
(*   SpecCmd   helpers.run_command                                         *)
(*   SpecCtx   the scoped overrides helpers.environ and helpers.change_cwd *)
(*   SpecDRep  test_drep.py: the register-then-retire scenario             *)
(*   SpecDeleg test_drep.py: _check_delegation                             *)
(* Each specification leaves the variables of the others at their idle     *)
(* values.                                                                 *)
(***************************************************************************)
EXTENDS Integers, Sequences, FiniteSets, TLC

VARIABLES
    \* ---- vote-pattern functions (SpecVote)
    idx,            \* the participant index handed to the functions
    yes_vote,       \* last result of get_yes_abstain_vote(idx), or Unset
    no_vote,        \* last result of get_no_abstain_vote(idx), or Unset
    \* ---- the ledger (system under test) and the fixtures (Spec)
    proposals,      \* gov_state["proposals"]: the open governance actions
    prev_gov_action_ids, \* gov_state: the last enacted action of each kind
    tx_count,       \* number of proposal transactions the ledger has taken
    governance_data,\* cc_members, dreps_reg, pools_cold of the governance setup
    pool_users,     \* the funded participants the scenario holds
    \* ---- the routine being run (Spec)
    routine,        \* which routine is running, or NoRoutine
    pc,             \* how far the running routine has come
    args,           \* the arguments of the running routine
    votes_cc,       \* cast_vote: the committee vote records built
    votes_drep,     \* cast_vote: the DRep vote records built
    votes_spo,      \* cast_vote: the stake pool vote records built
    keys_all,       \* cast_vote: the signing keys collected for the votes
    prev_action_rec,\* proposal: the previous-action pointer used
    actions,        \* proposal: constitution_actions / pparams_actions built
    result,         \* proposal: the (action_txid, action_ix) returned
    gate_returned,  \* wait_for_epoch_interval has returned in this call
    submitted,      \* the transactions this call has submitted, in order
    tx_output,      \* the TxRawOutput of the submitted transaction
    out_amount,     \* amount of the source address in the transaction's outputs
    prop_found,     \* what lookup_proposal returned after the submission
    error           \* the assertion that failed, or NoError

voteVars == <<idx, yes_vote, no_vote>>

ledgerVars == <<proposals, prev_gov_action_ids, tx_count, governance_data, pool_users>>

callVars == <<routine, pc, args, gate_returned, submitted, tx_output,
              out_amount, prop_found, error>>

castVars == <<votes_cc, votes_drep, votes_spo, keys_all>>

propVars == <<prev_action_rec, actions, result>>

govVars == <<ledgerVars, callVars, castVars, propVars>>

VARIABLES
    \* ---- resign_ccs (Spec)
    res_committee_state, \* committee_state()["committee"] read back by resign_ccs
    \* ---- possible_rem_issue (SpecRem)
    rem_gov_state,  \* the gov_state handed to possible_rem_issue
    rem_epoch,      \* the epoch handed to possible_rem_issue
    rem_result,     \* what possible_rem_issue returned, or None
    \* ---- get_registered_pool_user (SpecPool)
    fixture_cache,  \* cluster_manager.cache_fixture: key -> cached value
    users_created,  \* number of pool users create_pool_users has created
    funded,         \* users whose payment address the faucet has funded
    registered,     \* users whose stake address the ledger has registered
    pu_pc,          \* how far the running call has come
    pu_args,        \* caching_key and no_of_users of the running call
    pu_users,       \* the local pool_users of the running call
    pu_result,      \* what the call returned, or None
    pu_error,       \* what the call raised, or NoError
    pu_effects,     \* what the running call has done: keys, funding, registration
    pu_tx,          \* the registration transaction and its source balance
    pu_first,       \* per key, the value the first returning call returned
    \* ---- run_command (SpecCmd)
    cmd_args,       \* ignore_fail, workdir and what the external command does
    cmd_result,     \* the value returned or the failure raised, or None
    \* ---- environ, change_cwd (SpecCtx; cwd also SpecCmd)
    os_environ,     \* os.environ: variable -> value or Absent
    cwd,            \* the working directory of the process
    scopes,         \* the open context managers, innermost last
    ctx_exit,       \* the scope that has just been left, or None
    \* ---- test_register_and_retire_drep (SpecDRep)
    drep_pc,        \* how far the scenario has come
    drep_args,      \* use_build_cmd, submit_method
    drep_registry,  \* the ledger: DRep key hashes registered
    addr_utxos,     \* the ledger: unspent outputs of payment_addr, by transaction
    reg_drep,       \* the DRepRegistration register_drep returned
    reg_drep_state, \* drep_state() after the registration
    tx_output_ret,  \* the TxRawOutput of the retirement transaction
    ret_drep_state, \* drep_state() after the retirement
    drep_checked,   \* the assertions evaluated, in order, with what they read
    drep_error,     \* what the scenario raised, or NoError
    \* ---- _check_delegation (SpecDeleg)
    deleg_args,     \* deleg_state, drep_id, stake_addr_hash
    deleg_result,   \* "passed", "failed" or Unset
    \* ---- callonce, get_current_commit (SpecOnce)
    once_func,      \* the function the decorator wraps, or NoFunc
    once_result,    \* the closure's list `result`
    git_revision,   \* os.environ.get("GIT_REVISION"): None or Some(string)
    once_calls,     \* how many calls of the wrapper; how many of them invoked
                    \* the wrapped function and saw it return, or raise
    once_last,      \* what the last call of the wrapper did, or None
    once_first      \* the first value the wrapped function returned and the
                    \* number of the call that computed it, or None

resVars == <<res_committee_state>>

remVars == <<rem_gov_state, rem_epoch, rem_result>>

poolVars == <<fixture_cache, users_created, funded, registered, pu_pc, pu_args,
              pu_users, pu_result, pu_error, pu_effects, pu_tx, pu_first>>

cmdVars == <<cmd_args, cmd_result>>

ctxVars == <<os_environ, cwd, scopes, ctx_exit>>

drepVars == <<drep_pc, drep_args, drep_registry, addr_utxos, reg_drep,
              reg_drep_state, tx_output_ret, ret_drep_state, drep_checked,
              drep_error>>

delegVars == <<deleg_args, deleg_result>>

onceVars == <<once_func, once_result, git_revision, once_calls, once_last,
              once_first>>

\* What the vote-pattern functions and the governance routines, except
\* resign_ccs, never touch.
otherVars == <<resVars, remVars, poolVars, cmdVars, ctxVars, drepVars, delegVars,
               onceVars>>

\* What each of the other specifications leaves alone.
exceptRes == <<remVars, poolVars, cmdVars, ctxVars, drepVars, delegVars, onceVars>>
exceptRem == <<voteVars, govVars, resVars, poolVars, cmdVars, ctxVars, drepVars,
               delegVars, onceVars>>
exceptPool == <<voteVars, govVars, resVars, remVars, cmdVars, ctxVars, drepVars,
                delegVars, onceVars>>
exceptCmd == <<voteVars, govVars, resVars, remVars, poolVars, os_environ, scopes,
               ctx_exit, drepVars, delegVars, onceVars>>
exceptCtx == <<voteVars, govVars, resVars, remVars, poolVars, cmdVars, drepVars,
               delegVars, onceVars>>
exceptDRep == <<voteVars, govVars, resVars, remVars, poolVars, cmdVars, ctxVars,
                delegVars, onceVars>>
exceptDeleg == <<voteVars, govVars, resVars, remVars, poolVars, cmdVars, ctxVars,
                 drepVars, onceVars>>
exceptOnce == <<voteVars, govVars, resVars, remVars, poolVars, cmdVars, ctxVars,
                drepVars, delegVars>>

vars == <<voteVars, govVars, otherVars>>

\* A value no function returns.
Unset == "unset"

\* Python's None, and an Optional value that is set.
None == <<>>
Some(v) == <<v>>

\* Values of routine, pc and error.
NoRoutine == "none"
NoError == "none"
NoTx == [txid |-> "none"]
NoProposal == [found |-> FALSE]    \* the empty dict {} of lookup_proposal
NoGovernance == [cc_members |-> <<>>, dreps_reg |-> <<>>, pools_cold |-> <<>>]

\* governance_utils.PrevActionRec(txid, ix); the null pointer has an empty
\* txid.
PrevActionRec(txid, ix) == [txid |-> txid, ix |-> ix]
NullPrevAction == PrevActionRec(<<>>, -1)
NoPrevIds == [constitution |-> NullPrevAction, pparam_update |-> NullPrevAction]

\* The id of the k-th proposal transaction the ledger takes.
TxId(k) == <<"tx", k>>

(***************************************************************************)
(* Bounds of the model.                                                    *)
(***************************************************************************)
\* Largest participant index the vote-pattern functions are applied to.
MaxIdx == 30
\* Number of members a non-empty category of governance_data holds.
MaxMembers == 6
\* Largest fee the ledger takes for a transaction.
MaxFee == 2
\* Number of funded participants a proposing scenario holds.
MaxUsers == 2
\* Number of proposal transactions a scenario submits.
MaxTx == 2

(***************************************************************************)
(* clusterlib.Votes                                                        *)
(***************************************************************************)
YES == "YES"
NO == "NO"
ABSTAIN == "ABSTAIN"
Votes == {YES, NO, ABSTAIN}

(***************************************************************************)
(* get_yes_abstain_vote / get_no_abstain_vote                              *)
(***************************************************************************)
\* Mutant: the first participant is not special-cased.
get_yes_abstain_vote_no_first(i) ==
    IF i % 2 = 0 THEN YES
    ELSE IF i % 3 = 0 THEN NO
    ELSE ABSTAIN

\* Mutant: the multiple-of-3 test comes first.
get_yes_abstain_vote_three_first(i) ==
    IF i % 3 = 0 THEN NO
    ELSE IF i = 1 \/ i % 2 = 0 THEN YES
    ELSE ABSTAIN

get_yes_abstain_vote(i) ==
    IF i = 1 \/ i % 2 = 0 THEN YES
    ELSE IF i % 3 = 0 THEN NO
    ELSE ABSTAIN

\* Mutant: the first participant is not special-cased.
get_no_abstain_vote_no_first(i) ==
    IF i % 2 = 0 THEN NO
    ELSE IF i % 3 = 0 THEN YES
    ELSE ABSTAIN

get_no_abstain_vote(i) ==
    IF i = 1 \/ i % 2 = 0 THEN NO
    ELSE IF i % 3 = 0 THEN YES
    ELSE ABSTAIN

(***************************************************************************)
(* SpecVote: the functions applied to every index 1..MaxIdx.               *)
(***************************************************************************)
VoteIdle ==
    /\ idx = 0
    /\ yes_vote = Unset
    /\ no_vote = Unset

\* No routine is running.
CallIdle ==
    /\ routine = NoRoutine
    /\ pc = "idle"
    /\ args = None
    /\ gate_returned = FALSE
    /\ submitted = <<>>
    /\ tx_output = NoTx
    /\ out_amount = 0
    /\ prop_found = NoProposal
    /\ error = NoError
    /\ votes_cc = <<>>
    /\ votes_drep = <<>>
    /\ votes_spo = <<>>
    /\ keys_all = <<>>
    /\ prev_action_rec = None
    /\ actions = <<>>
    /\ result = None

GovIdle ==
    /\ proposals = <<>>
    /\ prev_gov_action_ids = NoPrevIds
    /\ tx_count = 0
    /\ governance_data = NoGovernance
    /\ pool_users = <<>>
    /\ CallIdle

\* resign_ccs has read no committee state.
ResIdle == res_committee_state = None

\* possible_rem_issue is not in use.
NoGovState == [nextRatifyState |-> [expiredGovActions |-> <<>>], proposals |-> <<>>]
RemIdle ==
    /\ rem_gov_state = NoGovState
    /\ rem_epoch = 0
    /\ rem_result = None

\* The cache keys the scenarios of one fixture scope use.
CacheKeys == {"key1", "key2"}
\* What a call of get_registered_pool_user has done so far.
NoEffects == [created |-> 0, fund_txs |-> 0, reg_txs |-> 0]
\* get_registered_pool_user is not in use.
PoolIdle ==
    /\ fixture_cache = [k \in CacheKeys |-> <<>>]
    /\ users_created = 0
    /\ funded = {}
    /\ registered = {}
    /\ pu_pc = "idle"
    /\ pu_args = None
    /\ pu_users = <<>>
    /\ pu_result = None
    /\ pu_error = NoError
    /\ pu_effects = NoEffects
    /\ pu_tx = NoTx
    /\ pu_first = [k \in CacheKeys |-> None]

\* run_command is not in use.
CmdIdle ==
    /\ cmd_args = None
    /\ cmd_result = None

\* The environment variables and directories of the process.
EnvVars == {"A", "B"}
Absent == "<absent>"
Dirs == {"/home", "/work"}
\* No scope is open; the process is where it started.
CtxIdle ==
    /\ os_environ = [v \in EnvVars |-> Absent]
    /\ cwd = "/home"
    /\ scopes = <<>>
    /\ ctx_exit = None

\* The register-then-retire scenario is not in use.
DRepIdle ==
    /\ drep_pc = "idle"
    /\ drep_args = None
    /\ drep_registry = {}
    /\ addr_utxos = {}
    /\ reg_drep = None
    /\ reg_drep_state = None
    /\ tx_output_ret = NoTx
    /\ ret_drep_state = None
    /\ drep_checked = <<>>
    /\ drep_error = NoError

\* _check_delegation is not in use.
DelegIdle ==
    /\ deleg_args = None
    /\ deleg_result = Unset

\* No function is decorated and nothing has been called.
NoFunc == "<no function>"

NoCalls == [wrapper |-> 0, returned |-> 0, raised |-> 0]

OnceIdle ==
    /\ once_func = NoFunc
    /\ once_result = <<>>
    /\ git_revision = None
    /\ once_calls = NoCalls
    /\ once_last = None
    /\ once_first = None

InitVote ==
    /\ idx \in 1..MaxIdx
    /\ yes_vote = Unset
    /\ no_vote = Unset
    /\ GovIdle
    /\ ResIdle /\ RemIdle /\ PoolIdle /\ CmdIdle /\ CtxIdle /\ DRepIdle /\ DelegIdle
    /\ OnceIdle

CallYesAbstain ==
    /\ idx >= 1
    /\ yes_vote' = get_yes_abstain_vote(idx)
    /\ UNCHANGED <<idx, no_vote, govVars, otherVars>>

CallNoAbstain ==
    /\ idx >= 1
    /\ no_vote' = get_no_abstain_vote(idx)
    /\ UNCHANGED <<idx, yes_vote, govVars, otherVars>>

NextVote ==
    \/ CallYesAbstain
    \/ CallNoAbstain

SpecVote == InitVote /\ [][NextVote]_vars

(***************************************************************************)
(* Claims about the vote-pattern functions (checked under SpecVote).       *)
(***************************************************************************)
IsOddMultipleOf3(i) == i % 2 = 1 /\ i % 3 = 0

\* C1: for every idx >= 1, get_yes_abstain_vote(idx) is YES when idx = 1 or
\* idx is even, NO when idx is an odd multiple of 3, and ABSTAIN in every
\* other case; a result always exists and is one of the three votes.
C1_YesAbstainPattern ==
    yes_vote # Unset =>
        /\ yes_vote \in Votes
        /\ (idx = 1 \/ idx % 2 = 0) => yes_vote = YES
        /\ IsOddMultipleOf3(idx) => yes_vote = NO
        /\ (~(idx = 1 \/ idx % 2 = 0) /\ ~IsOddMultipleOf3(idx)) => yes_vote = ABSTAIN

\* C1 witness: the function has answered NO for an odd multiple of 3 above 3.
C1_Witness == idx = 9 /\ yes_vote = NO

\* The vote with YES and NO swapped.
Mirror(v) == IF v = YES THEN NO ELSE IF v = NO THEN YES ELSE v

\* C2: get_no_abstain_vote is get_yes_abstain_vote with YES and NO swapped:
\* NO when idx = 1 or idx is even, YES when idx is an odd multiple of 3,
\* ABSTAIN otherwise.
C2_NoAbstainMirror ==
    no_vote # Unset =>
        /\ no_vote \in Votes
        /\ (idx = 1 \/ idx % 2 = 0) => no_vote = NO
        /\ IsOddMultipleOf3(idx) => no_vote = YES
        /\ (~(idx = 1 \/ idx % 2 = 0) /\ ~IsOddMultipleOf3(idx)) => no_vote = ABSTAIN
        /\ yes_vote # Unset => no_vote = Mirror(yes_vote)

\* C2 witness: both functions have answered for index 1, NO and YES.
C2_Witness == idx = 1 /\ no_vote = NO /\ yes_vote = YES

\* C3 as stated: the two functions never return the same value.
C3_NeverSameVote ==
    (yes_vote # Unset /\ no_vote # Unset) => yes_vote # no_vote

\* C3 amended: the two functions return the same value exactly when both
\* return ABSTAIN, which is exactly on the odd indices other than 1 that are
\* no multiple of 3; on every other index they differ.
C3_SameOnlyWhenAbstain ==
    (yes_vote # Unset /\ no_vote # Unset) =>
        /\ (yes_vote = no_vote) <=> (yes_vote = ABSTAIN /\ no_vote = ABSTAIN)
        /\ (yes_vote = no_vote) <=> (idx # 1 /\ idx % 2 = 1 /\ idx % 3 # 0)

\* C3 witness: both functions have answered ABSTAIN for index 5.
C3_Witness == idx = 5 /\ yes_vote = ABSTAIN /\ no_vote = ABSTAIN

(***************************************************************************)
(* The fixtures: governance_data and the ledger's governance state.        *)
(***************************************************************************)
\* A participant of category cat at 1-based position p, with its key files
\* (cc: hot_vkey_file / hot_skey_file, drep: key_pair.vkey_file /
\* key_pair.skey_file, pool: vkey_file / skey_file).
Member(cat, p) ==
    [vkey_file |-> <<cat, p, "vkey">>, skey_file |-> <<cat, p, "skey">>]

Members(cat, n) == [p \in 1..n |-> Member(cat, p)]

\* The governance setups a scenario may hold: every category is empty or
\* has MaxMembers members, and at least one category has members.
GovernanceShapes ==
    { [cc_members |-> Members("cc", a),
       dreps_reg |-> Members("drep", b),
       pools_cold |-> Members("pool", c)] :
         a \in {0, MaxMembers}, b \in {0, MaxMembers}, c \in {0, MaxMembers} }
    \ {NoGovernance}

\* One entry of gov_state["proposals"]: actionId.txId, actionId.govActionIx,
\* proposalProcedure.govAction.tag, and for each vote collection whether it
\* is non-empty.
GovAction(txid, ix, tag) ==
    [txId |-> txid, govActionIx |-> ix, tag |-> tag,
     committeeVotes |-> FALSE, dRepVotes |-> FALSE, stakePoolVotes |-> FALSE]

PARAMETER_CHANGE == "ParameterChange"
NEW_CONSTITUTION == "NewConstitution"

\* The ledger after one parameter-update submission with two funding
\* participants: two sibling actions of one transaction.
SiblingProposals ==
    << GovAction(TxId(0), 0, PARAMETER_CHANGE), GovAction(TxId(0), 1, PARAMETER_CHANGE) >>

(***************************************************************************)
(* The ledger (system under test).                                         *)
(***************************************************************************)
\* Amount in the inputs of a transaction built from one funded address.
InputBalance == 40
\* conway_genesis["govActionDeposit"].
GovActionDeposit == 5

\* The vote collection of the ledger a vote record of category cat goes to.
VoteField(cat) ==
    IF cat = "cc" THEN "committeeVotes"
    ELSE IF cat = "drep" THEN "dRepVotes"
    ELSE "stakePoolVotes"

\* The ledger's proposals after it has recorded the vote files of one
\* transaction: a vote goes to the action its file names.
LedgerRecordVotes(props, vote_files) ==
    [k \in 1..Len(props) |->
        LET Hit(f) ==
                \E j \in 1..Len(vote_files) :
                    /\ vote_files[j].action_txid = props[k].txId
                    /\ vote_files[j].action_ix = props[k].govActionIx
                    /\ VoteField(vote_files[j].vote_name[1]) = f
        IN  [props[k] EXCEPT
                !.committeeVotes = @ \/ Hit("committeeVotes"),
                !.dRepVotes = @ \/ Hit("dRepVotes"),
                !.stakePoolVotes = @ \/ Hit("stakePoolVotes")]]

\* The amount the ledger leaves to the source address: the inputs less the
\* fee less the deposit each proposal file of the transaction carries.
LedgerOutAmount(balance, fee, proposal_files) ==
    LET Deposits[k \in 0..Len(proposal_files)] ==
            IF k = 0 THEN 0 ELSE Deposits[k - 1] + proposal_files[k].deposit_amt
    IN  balance - fee - Deposits[Len(proposal_files)]

(***************************************************************************)
(* governance_utils.lookup_proposal(gov_state, action_txid): the action    *)
(* located by transaction id, the first one in the proposals, or the       *)
(* empty dict.                                                             *)
(***************************************************************************)
lookup_proposal(props, action_txid) ==
    LET hits == {k \in 1..Len(props) : props[k].txId = action_txid}
    IN  IF hits = {} THEN NoProposal
        ELSE props[CHOOSE k \in hits : \A j \in hits : k <= j]

(***************************************************************************)
(* cast_vote                                                               *)
(***************************************************************************)
\* None in the list of votes: the participant does not vote.
NoneVote == [none |-> TRUE]
Truthy(v) == v # NoneVote

\* vote.create_committee / create_drep / create_spo: the vote record.
create_vote(cat, i, m, action_txid, action_ix, vote) ==
    [vote_name |-> <<cat, i>>, action_txid |-> action_txid,
     action_ix |-> action_ix, vote |-> vote, vkey_file |-> m.vkey_file]

\* Mutant: the participants are renumbered after the omissions.
CategoryVotesRenumbered(cat, members, approve, skip, action_txid, action_ix) ==
    IF approve = None THEN <<>>
    ELSE
        LET kept == SelectSeq([i \in 1..Len(members) |-> i],
                               LAMBDA i : ~(skip /\ i % 3 = 0))
        IN  [j \in 1..Len(kept) |->
                create_vote(cat, j, members[kept[j]], action_txid, action_ix,
                            IF approve[1] THEN get_yes_abstain_vote(j)
                            ELSE get_no_abstain_vote(j))]

\* The vote records of one category: votes_cc, votes_drep or votes_spo.
CategoryVotes(cat, members, approve, skip, action_txid, action_ix) ==
    IF approve = None THEN <<>>
    ELSE
        LET _votes == [i \in 1..Len(members) |->
                IF skip /\ i % 3 = 0 THEN NoneVote
                ELSE create_vote(cat, i, members[i], action_txid, action_ix,
                                 IF approve[1] THEN get_yes_abstain_vote(i)
                                 ELSE get_no_abstain_vote(i))]
        IN  SelectSeq(_votes, Truthy)

\* cc_keys, drep_keys or spo_keys: the signing keys of one category.
CategoryKeys(members, votes) ==
    IF votes # <<>> THEN [k \in 1..Len(members) |-> members[k].skey_file]
    ELSE <<>>

OptBool == {None, Some(TRUE), Some(FALSE)}

\* The signing key of the payment address (payment_addr.skey_file).
PaymentSKey == <<"payment", 0, "skey">>

\* cast_vote is called on an action of the ledger; it builds the vote
\* records and collects the keys.
CastVoteBuild ==
    /\ pc = "idle"
    /\ governance_data # NoGovernance
    /\ \E t \in 1..Len(proposals) :
       \E approve_cc \in OptBool, approve_drep \in OptBool, approve_spo \in OptBool :
       \E cc_skip_votes \in BOOLEAN, drep_skip_votes \in BOOLEAN, spo_skip_votes \in BOOLEAN :
          LET action_txid == proposals[t].txId
              action_ix == proposals[t].govActionIx
              v_cc == CategoryVotes("cc", governance_data.cc_members, approve_cc,
                                    cc_skip_votes, action_txid, action_ix)
              v_drep == CategoryVotes("drep", governance_data.dreps_reg, approve_drep,
                                      drep_skip_votes, action_txid, action_ix)
              v_spo == CategoryVotes("pool", governance_data.pools_cold, approve_spo,
                                     spo_skip_votes, action_txid, action_ix)
          IN  /\ args' = [action_txid |-> action_txid, action_ix |-> action_ix,
                          approve_cc |-> approve_cc, approve_drep |-> approve_drep,
                          approve_spo |-> approve_spo, cc_skip_votes |-> cc_skip_votes,
                          drep_skip_votes |-> drep_skip_votes,
                          spo_skip_votes |-> spo_skip_votes]
              /\ votes_cc' = v_cc
              /\ votes_drep' = v_drep
              /\ votes_spo' = v_spo
              /\ keys_all' = CategoryKeys(governance_data.cc_members, v_cc)
                             \o CategoryKeys(governance_data.dreps_reg, v_drep)
                             \o CategoryKeys(governance_data.pools_cold, v_spo)
    /\ routine' = "cast_vote"
    /\ pc' = "built"
    /\ gate_returned' = FALSE
    /\ submitted' = <<>>
    /\ tx_output' = NoTx
    /\ out_amount' = 0
    /\ prop_found' = NoProposal
    /\ error' = NoError
    /\ UNCHANGED <<ledgerVars, propVars, voteVars, otherVars>>

\* clusterlib_utils.wait_for_epoch_interval returns: enough time is left
\* in the epoch.
WaitForEpochInterval ==
    /\ pc = "built"
    /\ pc' = "gated"
    /\ gate_returned' = TRUE
    /\ UNCHANGED <<routine, args, submitted, tx_output, out_amount, prop_found,
                   error, castVars, propVars, ledgerVars, voteVars, otherVars>>

\* The submission comes after the wait: the routine is past the gate.
\* Mutant: the submission may also come before the wait.
ReadyToSubmitUngated == pc \in {"built", "gated"}

ReadyToSubmit == pc = "gated"

\* submit_vote: one transaction with all the vote files, signed by the
\* payment key and the collected keys; the ledger takes it and records the
\* votes or, at fault, records none; then the balance is asserted.
SubmitVote ==
    /\ routine = "cast_vote"
    /\ ReadyToSubmit
    /\ \E fee \in 1..MaxFee, recorded \in BOOLEAN :
          LET votes_all == votes_cc \o votes_drep \o votes_spo
              tx == [vote_files |-> votes_all, proposal_files |-> <<>>,
                     signing_key_files |-> <<PaymentSKey>> \o keys_all]
              amount == LedgerOutAmount(InputBalance, fee, tx.proposal_files)
          IN  /\ submitted' = Append(submitted, tx)
              /\ tx_output' = [txid |-> <<"vote">>, txins |-> InputBalance, fee |-> fee]
              /\ out_amount' = amount
              /\ proposals' = IF recorded THEN LedgerRecordVotes(proposals, votes_all)
                              ELSE proposals
              /\ IF amount = InputBalance - fee
                 THEN pc' = "submitted" /\ error' = NoError
                 ELSE pc' = "failed" /\ error' = "Incorrect balance"
    /\ UNCHANGED <<routine, args, gate_returned, prop_found, castVars, propVars,
                   prev_gov_action_ids, tx_count, governance_data, pool_users,
                   voteVars, otherVars>>

\* The vote collection f of what lookup_proposal returned is non-empty.
HasVotes(prop, f) == prop # NoProposal /\ prop[f]

\* The end of cast_vote: the governance state is queried, the action is
\* looked up by action_txid, and the vote collections of the categories
\* that voted are asserted non-empty.
CastVoteCheck ==
    /\ routine = "cast_vote"
    /\ pc = "submitted"
    /\ LET prop_vote == lookup_proposal(proposals, args.action_txid)
       IN  /\ prop_found' = prop_vote
           /\ IF ~(votes_cc = <<>> \/ HasVotes(prop_vote, "committeeVotes"))
              THEN pc' = "failed" /\ error' = "No committee votes"
              ELSE IF ~(votes_drep = <<>> \/ HasVotes(prop_vote, "dRepVotes"))
              THEN pc' = "failed" /\ error' = "No DRep votes"
              ELSE IF ~(votes_spo = <<>> \/ HasVotes(prop_vote, "stakePoolVotes"))
              THEN pc' = "failed" /\ error' = "No stake pool votes"
              ELSE pc' = "returned" /\ error' = NoError
    /\ UNCHANGED <<routine, args, gate_returned, submitted, tx_output, out_amount,
                   castVars, propVars, ledgerVars, voteVars, otherVars>>

(***************************************************************************)
(* resign_ccs                                                              *)
(***************************************************************************)
\* What committee_state()["committee"] may hold for a member after the
\* resignation: no record, a resigned record, or, at fault, a record that
\* is still authorized.
MemberStates == {"absent", "MemberResigned", "MemberAuthorized"}

\* Lines 362-364: not member_rec or its hotCredsAuthStatus tag is
\* MemberResigned.
MemberResignedOrGone(member_rec) ==
    member_rec = "absent" \/ member_rec = "MemberResigned"

\* resign_ccs up to the submission: one resignation certificate per member,
\* one transaction signed by the payment key and the cold keys. No deposit
\* moves; a ledger at fault keeps one. The committee state is read back.
ResignCCs ==
    /\ pc = "idle"
    /\ governance_data.cc_members # <<>>
    /\ \E n \in {1, Len(governance_data.cc_members)}, fee \in 1..MaxFee,
          kept \in {0, GovActionDeposit}, st \in MemberStates :
          LET ccs_to_resign == SubSeq(governance_data.cc_members, 1, n)
              tx == [vote_files |-> <<>>, proposal_files |-> <<>>,
                     certificate_files |->
                        [k \in 1..n |-> <<"res_cert", ccs_to_resign[k].vkey_file>>],
                     signing_key_files |->
                        <<PaymentSKey>> \o [k \in 1..n |-> ccs_to_resign[k].skey_file]]
          IN  /\ routine' = "resign_ccs"
              /\ args' = [ccs_to_resign |-> ccs_to_resign]
              /\ submitted' = <<tx>>
              /\ tx_output' = [txid |-> <<"res">>, txins |-> InputBalance, fee |-> fee]
              /\ out_amount' = InputBalance - fee - kept
              /\ res_committee_state' =
                    Some([k \in 1..n |-> [member |-> ccs_to_resign[k], rec |-> st]])
    /\ pc' = "submitted"
    /\ UNCHANGED <<gate_returned, prop_found, error, castVars, propVars, ledgerVars,
                   voteVars, exceptRes>>

\* The end of resign_ccs: every member is asserted resigned or gone, and
\* the transaction output is returned; the balance is not looked at.
ResignCheck ==
    /\ routine = "resign_ccs"
    /\ pc = "submitted"
    /\ IF \A k \in 1..Len(res_committee_state[1]) :
             MemberResignedOrGone(res_committee_state[1][k].rec)
       THEN pc' = "returned" /\ error' = NoError
       ELSE pc' = "failed" /\ error' = "CC Member not resigned"
    /\ UNCHANGED <<routine, args, gate_returned, submitted, tx_output, out_amount,
                   prop_found, castVars, propVars, ledgerVars, voteVars, otherVars>>

(***************************************************************************)
(* propose_change_constitution / propose_pparams_update                    *)
(***************************************************************************)
\* A funded participant (clusterlib.PoolUser): payment and stake keys.
PoolUser(k) ==
    [payment |-> [address |-> <<"addr", k>>, skey_file |-> <<"user", k, "payment.skey">>],
     stake |-> [vkey_file |-> <<"user", k, "stake.vkey">>]]

\* The anchors (anchor_url, anchor_data_hash) a caller passes.
Anchors == { [anchor_url |-> "url1", anchor_data_hash |-> "hash1"],
             [anchor_url |-> "url2", anchor_data_hash |-> "hash2"] }

\* A previous-action pointer a caller of propose_pparams_update passes.
CallerPrevAction == PrevActionRec(<<"caller">>, 0)

\* What the ledger may report as last enacted actions.
PrevIdsChoices ==
    { NoPrevIds,
      [constitution |-> PrevActionRec(<<"enacted", 1>>, 0), pparam_update |-> NullPrevAction],
      [constitution |-> PrevActionRec(<<"enacted", 1>>, 0),
       pparam_update |-> PrevActionRec(<<"enacted", 2>>, 1)] }

\* governance_utils.get_prev_action(action_type, gov_state): the most recent
\* action of the kind, or the null pointer.
get_prev_action(action_type, prev_ids) == prev_ids[action_type]

\* action.create_constitution / action.create_pparams_update: one proposal
\* file.
create_action(tag, deposit_amt, anchor, prev, pool_user) ==
    [tag |-> tag, deposit_amt |-> deposit_amt,
     anchor_url |-> anchor.anchor_url, anchor_data_hash |-> anchor.anchor_data_hash,
     prev_action_txid |-> prev.txid, prev_action_ix |-> prev.ix,
     deposit_return_stake_vkey_file |-> pool_user.stake.vkey_file]

\* constitution_actions / pparams_actions: one proposal file per participant.
ProposalActions(tag, deposit_amt, anchor, prev, users) ==
    [k \in 1..Len(users) |-> create_action(tag, deposit_amt, anchor, prev, users[k])]

\* Mutant: the pointer of the constitution chain is resolved.
PParamsPrevActionWrongKind(given, prev_ids) ==
    IF given # None THEN given[1]
    ELSE get_prev_action("constitution", prev_ids)

\* prev_action_rec or get_prev_action(PPARAM_UPDATE, gov_state)
PParamsPrevAction(given, prev_ids) ==
    IF given # None THEN given[1]
    ELSE get_prev_action("pparam_update", prev_ids)

ProposalRoutines == {"propose_change_constitution", "propose_pparams_update"}

\* What a proposal routine sets when it has built its proposal files.
ProposalBuilt(name, a, prev, files) ==
    /\ routine' = name
    /\ pc' = "built"
    /\ args' = a
    /\ prev_action_rec' = Some(prev)
    /\ actions' = files
    /\ result' = None
    /\ gate_returned' = FALSE
    /\ submitted' = <<>>
    /\ tx_output' = NoTx
    /\ out_amount' = 0
    /\ prop_found' = NoProposal
    /\ error' = NoError
    /\ UNCHANGED <<ledgerVars, castVars, voteVars, otherVars>>

\* propose_change_constitution up to the wait: deposit, previous action of
\* the constitution chain, one action per participant.
ProposeChangeConstitutionBuild ==
    /\ pc = "idle"
    /\ tx_count < MaxTx
    /\ \E n \in 1..Len(pool_users), anchor \in Anchors :
          LET users == SubSeq(pool_users, 1, n)
              deposit_amt == GovActionDeposit
              prev == get_prev_action("constitution", prev_gov_action_ids)
          IN  ProposalBuilt("propose_change_constitution",
                  [anchor |-> anchor, pool_users |-> users, deposit_amt |-> deposit_amt,
                   prev_action_rec |-> None],
                  prev,
                  ProposalActions(NEW_CONSTITUTION, deposit_amt, anchor, prev, users))

\* propose_pparams_update up to the wait: deposit, previous action given by
\* the caller or resolved, one action per participant.
ProposePParamsUpdateBuild ==
    /\ pc = "idle"
    /\ tx_count < MaxTx
    /\ \E n \in 1..Len(pool_users), anchor \in Anchors,
          given \in {None, Some(CallerPrevAction)} :
          LET users == SubSeq(pool_users, 1, n)
              deposit_amt == GovActionDeposit
              prev == PParamsPrevAction(given, prev_gov_action_ids)
          IN  ProposalBuilt("propose_pparams_update",
                  [anchor |-> anchor, pool_users |-> users, deposit_amt |-> deposit_amt,
                   prev_action_rec |-> given],
                  prev,
                  ProposalActions(PARAMETER_CHANGE, deposit_amt, anchor, prev, users))

\* The ledger takes a proposal transaction: it lists one action per
\* proposal file under the transaction's id, or at fault lists none or
\* lists them under another tag, and takes the fee and the deposits.
LedgerTakeProposals(balance, tx) ==
    \E fee \in 1..MaxFee, listed \in BOOLEAN,
       tag \in {PARAMETER_CHANGE, NEW_CONSTITUTION} :
        /\ tx_count' = tx_count + 1
        /\ submitted' = Append(submitted, tx)
        /\ tx_output' = [txid |-> TxId(tx_count + 1), txins |-> balance, fee |-> fee]
        /\ out_amount' = LedgerOutAmount(balance, fee, tx.proposal_files)
        /\ proposals' =
              IF listed
              THEN proposals \o [k \in 1..Len(tx.proposal_files) |->
                                    GovAction(TxId(tx_count + 1), k - 1, tag)]
              ELSE proposals
        /\ pc' = "submitted"
        /\ UNCHANGED <<routine, args, gate_returned, prop_found, error, castVars,
                       propVars, prev_gov_action_ids, governance_data, pool_users,
                       voteVars, otherVars>>

\* tx_files of a proposal routine: the proposal files and the payment keys.
ProposalTxFiles ==
    [vote_files |-> <<>>,
     proposal_files |-> actions,
     signing_key_files |-> [k \in 1..Len(args.pool_users) |->
                               args.pool_users[k].payment.skey_file]]

\* propose_change_constitution submits: the inputs are the utxos of every
\* participant's payment address.
SubmitConstitution ==
    /\ routine = "propose_change_constitution"
    /\ ReadyToSubmit
    /\ LedgerTakeProposals(Len(args.pool_users) * InputBalance, ProposalTxFiles)

\* propose_pparams_update submits: the inputs are taken from the first
\* participant's payment address.
SubmitPParamsUpdate ==
    /\ routine = "propose_pparams_update"
    /\ ReadyToSubmit
    /\ LedgerTakeProposals(InputBalance, ProposalTxFiles)

\* The end of a proposal routine: the balance is asserted, the action is
\* looked up by the transaction id, its tag asserted and its index taken.
ProposeCheck(name, tag, not_found) ==
    /\ routine = name
    /\ pc = "submitted"
    /\ LET action_txid == tx_output.txid
           prop_action == lookup_proposal(proposals, action_txid)
       IN  IF out_amount # tx_output.txins - tx_output.fee - args.deposit_amt
           THEN /\ pc' = "failed"
                /\ error' = "Incorrect balance"
                /\ UNCHANGED <<prop_found, result>>
           ELSE /\ prop_found' = prop_action
                /\ IF prop_action = NoProposal
                   THEN pc' = "failed" /\ error' = not_found /\ UNCHANGED result
                   ELSE IF prop_action.tag # tag
                   THEN pc' = "failed" /\ error' = "Incorrect action tag"
                        /\ UNCHANGED result
                   ELSE /\ pc' = "returned"
                        /\ error' = NoError
                        /\ result' = Some([action_txid |-> action_txid,
                                           action_ix |-> prop_action.govActionIx])
    /\ UNCHANGED <<routine, args, gate_returned, submitted, tx_output, out_amount,
                   castVars, prev_action_rec, actions, ledgerVars, voteVars, otherVars>>

\* Mutant: the constitution routine asserts the parameter-change tag.
ConstitutionCheckWrongTag ==
    ProposeCheck("propose_change_constitution", PARAMETER_CHANGE,
                 "Create constitution action not found")

ConstitutionCheck ==
    ProposeCheck("propose_change_constitution", NEW_CONSTITUTION,
                 "Create constitution action not found")

PParamsUpdateCheck ==
    ProposeCheck("propose_pparams_update", PARAMETER_CHANGE,
                 "Param update action not found")

\* The routine has returned or raised: its frame is gone, the ledger stays.
RoutineExit ==
    /\ pc \in {"returned", "failed"}
    /\ routine' = NoRoutine
    /\ pc' = "idle"
    /\ args' = None
    /\ gate_returned' = FALSE
    /\ submitted' = <<>>
    /\ tx_output' = NoTx
    /\ out_amount' = 0
    /\ prop_found' = NoProposal
    /\ error' = NoError
    /\ votes_cc' = <<>>
    /\ votes_drep' = <<>>
    /\ votes_spo' = <<>>
    /\ keys_all' = <<>>
    /\ prev_action_rec' = None
    /\ actions' = <<>>
    /\ result' = None
    /\ res_committee_state' = None
    /\ UNCHANGED <<ledgerVars, voteVars, exceptRes>>

(***************************************************************************)
(* Spec: the governance routines against the ledger.                       *)
(***************************************************************************)
\* A scenario that casts votes: the governance setup is there and the
\* ledger holds two sibling actions.
InitCast ==
    /\ VoteIdle
    /\ ResIdle /\ RemIdle /\ PoolIdle /\ CmdIdle /\ CtxIdle /\ DRepIdle /\ DelegIdle
    /\ OnceIdle
    /\ CallIdle
    /\ proposals = SiblingProposals
    /\ prev_gov_action_ids = NoPrevIds
    /\ tx_count = 0
    /\ governance_data \in GovernanceShapes
    /\ pool_users = <<>>

\* A scenario that submits proposals: funded participants are there and
\* the ledger holds no open action.
InitPropose ==
    /\ VoteIdle
    /\ ResIdle /\ RemIdle /\ PoolIdle /\ CmdIdle /\ CtxIdle /\ DRepIdle /\ DelegIdle
    /\ OnceIdle
    /\ CallIdle
    /\ proposals = <<>>
    /\ prev_gov_action_ids \in PrevIdsChoices
    /\ tx_count = 0
    /\ governance_data = NoGovernance
    /\ pool_users = [k \in 1..MaxUsers |-> PoolUser(k)]

Init == InitCast \/ InitPropose

Next ==
    \/ CastVoteBuild
    \/ ProposeChangeConstitutionBuild
    \/ ProposePParamsUpdateBuild
    \/ WaitForEpochInterval
    \/ SubmitVote
    \/ SubmitConstitution
    \/ SubmitPParamsUpdate
    \/ CastVoteCheck
    \/ ConstitutionCheck
    \/ PParamsUpdateCheck
    \/ ResignCCs
    \/ ResignCheck
    \/ RoutineExit

Spec == Init /\ [][Next]_vars

(***************************************************************************)
(* Claims about cast_vote (checked under Spec).                            *)
(***************************************************************************)
Range(seq) == {seq[k] : k \in 1..Len(seq)}

InCastVote == routine = "cast_vote"

\* The vote records votes of category cat are the ones asked for: none
\* when the approval flag is unset; otherwise exactly one per 1-based
\* position i of members, except the multiples of 3 when skip is set, each
\* carrying the pattern vote of i, the key of the member at position i and
\* the target action, in the order of the positions.
VotesAsAskedFor(cat, members, approve, skip, votes) ==
    IF approve = None THEN votes = <<>>
    ELSE
        /\ \A i \in 1..Len(members) :
              LET recs == {k \in 1..Len(votes) : votes[k].vote_name = <<cat, i>>}
              IN  IF skip /\ i % 3 = 0 THEN recs = {}
                  ELSE /\ Cardinality(recs) = 1
                       /\ \A k \in recs :
                             /\ votes[k].vote =
                                   (IF approve = Some(TRUE) THEN get_yes_abstain_vote(i)
                                    ELSE get_no_abstain_vote(i))
                             /\ votes[k].vkey_file = members[i].vkey_file
                             /\ votes[k].action_txid = args.action_txid
                             /\ votes[k].action_ix = args.action_ix
        /\ \A k \in 1..Len(votes) :
              /\ votes[k].vote_name[1] = cat
              /\ votes[k].vote_name[2] \in 1..Len(members)
        /\ \A j, k \in 1..Len(votes) :
              j < k => votes[j].vote_name[2] < votes[k].vote_name[2]

\* C4: in cast_vote, a category whose approval flag is unset produces no
\* vote record; otherwise it produces exactly one record for each 1-based
\* participant index, except the multiples of 3 when its skip flag is set,
\* and the record of participant i carries get_yes_abstain_vote(i) when the
\* flag is true and get_no_abstain_vote(i) when it is false, i being the
\* original position.
C4_VotesPerCategory ==
    InCastVote =>
        /\ VotesAsAskedFor("cc", governance_data.cc_members, args.approve_cc,
                           args.cc_skip_votes, votes_cc)
        /\ VotesAsAskedFor("drep", governance_data.dreps_reg, args.approve_drep,
                           args.drep_skip_votes, votes_drep)
        /\ VotesAsAskedFor("pool", governance_data.pools_cold, args.approve_spo,
                           args.spo_skip_votes, votes_spo)

\* C4 witness: the committee approves with every third member omitted (no
\* record for position 3, ABSTAIN at position 5), the DReps disapprove
\* without omission (YES at position 3), the pools do not vote.
C4_Witness ==
    /\ InCastVote
    /\ args.approve_cc = Some(TRUE) /\ args.cc_skip_votes
    /\ args.approve_drep = Some(FALSE) /\ ~args.drep_skip_votes
    /\ args.approve_spo = None
    /\ Len(votes_cc) >= 4
    /\ \A k \in 1..Len(votes_cc) : votes_cc[k].vote_name # <<"cc", 3>>
    /\ \E k \in 1..Len(votes_cc) :
          votes_cc[k].vote_name = <<"cc", 5>> /\ votes_cc[k].vote = ABSTAIN
    /\ \E k \in 1..Len(votes_drep) :
          votes_drep[k].vote_name = <<"drep", 3>> /\ votes_drep[k].vote = YES
    /\ votes_spo = <<>>

\* A member's signing key is among the collected keys exactly when the
\* member has a vote record.
KeysOfVoters(members, votes) ==
    \A p \in 1..Len(members) :
        (members[p].skey_file \in Range(keys_all))
            <=> (\E k \in 1..Len(votes) : votes[k].vkey_file = members[p].vkey_file)

\* C5: in cast_vote, a participant's signing key is in the combined
\* submission if and only if that participant produced a vote record in
\* this call; a participant omitted by the skip flag contributes no key.
C5_KeysMatchVotes ==
    InCastVote =>
        /\ KeysOfVoters(governance_data.cc_members, votes_cc)
        /\ KeysOfVoters(governance_data.dreps_reg, votes_drep)
        /\ KeysOfVoters(governance_data.pools_cold, votes_spo)

\* The files the running routine has built for its transaction.
BuiltVoteFiles == votes_cc \o votes_drep \o votes_spo
BuiltProposalFiles == actions

\* C6: every call of cast_vote, propose_change_constitution and
\* propose_pparams_update submits exactly one transaction, which carries
\* all the vote records or proposal files the call built, and submits it
\* only after wait_for_epoch_interval has returned in that call.
C6_OneSubmissionAfterGate ==
    routine \in {"cast_vote", "propose_change_constitution", "propose_pparams_update"} =>
        /\ Len(submitted) <= 1
        /\ submitted # <<>> => gate_returned
        /\ pc \in {"built", "gated"} => submitted = <<>>
        /\ pc \in {"submitted", "returned", "failed"} => Len(submitted) = 1
        /\ submitted # <<>> =>
              /\ submitted[1].vote_files = BuiltVoteFiles
              /\ submitted[1].proposal_files = BuiltProposalFiles

\* C6 witness: a parameter-update call with two participants is past the gate
\* and has submitted its two proposal files in one transaction.
C6_Witness ==
    /\ routine = "propose_pparams_update"
    /\ pc = "submitted"
    /\ gate_returned
    /\ Len(submitted) = 1
    /\ Len(submitted[1].proposal_files) = 2

\* The action of the ledger the caller of cast_vote named.
TargetAction ==
    CHOOSE a \in Range(proposals) :
        a.txId = args.action_txid /\ a.govActionIx = args.action_ix

\* C7: cast_vote returns only if, in the governance state after the
\* submission, the vote collection of the target action is non-empty for
\* every category this call produced a vote record for.
C7_ReturnsOnlyIfTargetVoted ==
    (InCastVote /\ pc = "returned") =>
        /\ votes_cc # <<>> => TargetAction.committeeVotes
        /\ votes_drep # <<>> => TargetAction.dRepVotes
        /\ votes_spo # <<>> => TargetAction.stakePoolVotes

\* C8: the action whose vote collections cast_vote inspects after the
\* submission is the one whose transaction id and action index both equal
\* the caller's, also when sibling actions share the transaction id.
C8_LookupByTxidAndIx ==
    (/\ InCastVote
     /\ pc \in {"returned", "failed"}
     /\ prop_found # NoProposal
     /\ BuiltVoteFiles # <<>>) =>
        /\ prop_found.txId = args.action_txid
        /\ prop_found.govActionIx = args.action_ix

(***************************************************************************)
(* Claims about the proposal routines (checked under Spec).                *)
(***************************************************************************)
InProposal == routine \in ProposalRoutines

\* C9: for any number of funding addresses, the balance asserted after the
\* submission is the inputs less the fee less one deposit, and the routine
\* passes that assertion.
C9_BalanceLessOneDeposit ==
    (InProposal /\ pc \in {"returned", "failed"}) =>
        /\ out_amount = tx_output.txins - tx_output.fee - GovActionDeposit
        /\ error # "Incorrect balance"

\* Every proposal file built embeds the call's anchor, the deposit and the
\* pointer prev, and there is one file per funding address.
FilesEmbed(prev) ==
    /\ Len(actions) = Len(args.pool_users)
    /\ \A k \in 1..Len(actions) :
          /\ actions[k].anchor_url = args.anchor.anchor_url
          /\ actions[k].anchor_data_hash = args.anchor.anchor_data_hash
          /\ actions[k].deposit_amt = GovActionDeposit
          /\ actions[k].prev_action_txid = prev.txid
          /\ actions[k].prev_action_ix = prev.ix
          /\ actions[k].deposit_return_stake_vkey_file
                = args.pool_users[k].stake.vkey_file

\* The pointer the governance state holds for the routine's own category.
OwnCategoryPointer ==
    IF routine = "propose_change_constitution"
    THEN prev_gov_action_ids.constitution
    ELSE prev_gov_action_ids.pparam_update

\* C10 as stated: every proposal file embeds the pointer resolved from the
\* governance state for the action's own category.
C10_PointerFromGovState ==
    InProposal => FilesEmbed(OwnCategoryPointer)

\* C10 amended: a proposal call builds one proposal file per funding
\* address, all with the same anchor, deposit and previous-action pointer;
\* the pointer is the one the caller of propose_pparams_update passed, when
\* one is passed, and otherwise the one resolved for the action's own
\* category from the governance state.
C10_PointerGivenOrResolved ==
    InProposal =>
        FilesEmbed(IF args.prev_action_rec # None THEN args.prev_action_rec[1]
                   ELSE OwnCategoryPointer)

\* C10 witness: a parameter-update call without a pointer of the caller
\* has built two files that embed the ledger's parameter-change pointer,
\* which differs from the constitution pointer.
C10_Witness ==
    /\ routine = "propose_pparams_update"
    /\ args.prev_action_rec = None
    /\ Len(actions) = 2
    /\ prev_gov_action_ids.pparam_update # prev_gov_action_ids.constitution
    /\ prev_gov_action_ids.pparam_update # NullPrevAction
    /\ actions[2].prev_action_txid = prev_gov_action_ids.pparam_update.txid

\* The action kind the running proposal routine asks for.
RequestedTag ==
    IF routine = "propose_change_constitution" THEN NEW_CONSTITUTION
    ELSE PARAMETER_CHANGE

\* The governance state holds an action of the requested kind under the id
\* of the transaction the routine submitted.
SubmittedActionListed ==
    \E k \in 1..Len(proposals) :
        /\ proposals[k].txId = tx_output.txid
        /\ proposals[k].tag = RequestedTag

\* C11: a proposal routine returns an (action_txid, action_ix) result only
\* if the governance state queried after the submission holds an action
\* under the submitted transaction's id with the requested kind; if there
\* is none, the routine ends in a failed assertion and has no result.
C11_ResultOnlyIfListedAndTagged ==
    InProposal =>
        /\ (pc = "returned") <=> (result # None)
        /\ result # None =>
              /\ SubmittedActionListed
              /\ result[1].action_txid = tx_output.txid
        /\ (pc \in {"returned", "failed"} /\ ~SubmittedActionListed) =>
              /\ pc = "failed"
              /\ error # NoError
              /\ result = None

\* C11 witness: a constitution proposal has returned the id of the action
\* the ledger lists under its transaction.
C11_Witness ==
    /\ routine = "propose_change_constitution"
    /\ pc = "returned"
    /\ result # None
    /\ SubmittedActionListed

\* The ledger lists two sibling parameter-change actions, of index 0 and 1,
\* under the id of the submitted transaction.
TwoSiblingsListed ==
    \E j, k \in 1..Len(proposals) :
        /\ proposals[j].txId = tx_output.txid
        /\ proposals[k].txId = tx_output.txid
        /\ proposals[j].govActionIx = 0
        /\ proposals[k].govActionIx = 1
        /\ proposals[j].tag = PARAMETER_CHANGE
        /\ proposals[k].tag = PARAMETER_CHANGE

\* C12: a parameter-update proposal with two funding participants creates
\* two sibling parameter-change actions under one transaction id, and the
\* routine verifies them and returns.
C12_TwoSiblingsVerified ==
    (/\ routine = "propose_pparams_update"
     /\ pc \in {"returned", "failed"}
     /\ Len(args.pool_users) = 2
     /\ TwoSiblingsListed) =>
        /\ pc = "returned"
        /\ result # None

(***************************************************************************)
(* SpecRem: possible_rem_issue applied to a governance state.              *)
(***************************************************************************)
\* Largest number of entries of nextRatifyState.expiredGovActions.
MaxRemoved == 2
\* Largest number of open proposals of a governance state.
MaxOpen == 2
\* Largest epoch number.
MaxEpoch == 2

\* The sequences over S of length at most n.
SeqsUpTo(S, n) == UNION { [1..k -> S] : k \in 0..n }

\* Action ids: two siblings of one transaction and an action of another.
ActionIds ==
    { [txId |-> TxId(1), govActionIx |-> 0],
      [txId |-> TxId(1), govActionIx |-> 1],
      [txId |-> TxId(2), govActionIx |-> 0] }

\* The entries of gov_state["proposals"] the function reads.
OpenProposals == [actionId : ActionIds, expiresAfter : 0..MaxEpoch]

\* The governance states handed to the function.
GovStates ==
    [nextRatifyState : [expiredGovActions : SeqsUpTo(ActionIds, MaxRemoved)],
     proposals : SeqsUpTo(OpenProposals, MaxOpen)]

\* Mutant: the expiry of the open proposal is not looked at.
possible_rem_issue_any_expiry(gov_state, epoch) ==
    LET removed_actions == gov_state.nextRatifyState.expiredGovActions
        props == gov_state.proposals
    IN  IF Len(removed_actions) # 1 \/ Len(props) = 1
        THEN FALSE
        ELSE \E k \in 1..Len(props) :
                /\ props[k].actionId.txId = removed_actions[1].txId
                /\ props[k].actionId.govActionIx = removed_actions[1].govActionIx

\* possible_rem_issue(gov_state, epoch): the loop returns True at the first
\* proposal that matches, False when it runs out.
possible_rem_issue(gov_state, epoch) ==
    LET removed_actions == gov_state.nextRatifyState.expiredGovActions
        props == gov_state.proposals
    IN  IF Len(removed_actions) # 1 \/ Len(props) = 1
        THEN FALSE
        ELSE LET action_txid == removed_actions[1].txId
                 action_ix == removed_actions[1].govActionIx
             IN  \E k \in 1..Len(props) :
                    /\ props[k].expiresAfter < epoch
                    /\ props[k].actionId.txId = action_txid
                    /\ props[k].actionId.govActionIx = action_ix

InitRem ==
    /\ rem_gov_state \in GovStates
    /\ rem_epoch \in 1..MaxEpoch
    /\ rem_result = None
    /\ VoteIdle /\ GovIdle
    /\ ResIdle /\ PoolIdle /\ CmdIdle /\ CtxIdle /\ DRepIdle /\ DelegIdle
    /\ OnceIdle

CallPossibleRemIssue ==
    /\ rem_result = None
    /\ rem_result' = Some(possible_rem_issue(rem_gov_state, rem_epoch))
    /\ UNCHANGED <<rem_gov_state, rem_epoch, exceptRem>>

NextRem == CallPossibleRemIssue

SpecRem == InitRem /\ [][NextRem]_vars

(***************************************************************************)
(* Claims about possible_rem_issue (checked under SpecRem).                *)
(***************************************************************************)
\* Some still-open proposal has expired before the epoch and has the id of
\* the single removed action.
RemovedStillOpenExpired ==
    \E k \in 1..Len(rem_gov_state.proposals) :
        /\ rem_gov_state.proposals[k].expiresAfter < rem_epoch
        /\ rem_gov_state.proposals[k].actionId
              = rem_gov_state.nextRatifyState.expiredGovActions[1]

\* Exactly one action was removed and more than one proposal is open.
OneRemovedManyOpen ==
    /\ Len(rem_gov_state.nextRatifyState.expiredGovActions) = 1
    /\ Len(rem_gov_state.proposals) > 1

\* C13 as stated: possible_rem_issue returns true exactly when one action
\* was removed, more than one proposal is open and NO open proposal is both
\* expired and has the id of the removed action.
C13_TrueWhenNoneMatches ==
    rem_result # None =>
        (rem_result = Some(TRUE) <=> (OneRemovedManyOpen /\ ~RemovedStillOpenExpired))

\* C13 amended: possible_rem_issue returns true exactly when one action was
\* removed, more than one proposal is open and SOME open proposal is both
\* expired and has the id of the removed action.
C13_TrueWhenRemovedStillOpen ==
    rem_result # None =>
        (rem_result = Some(TRUE) <=> (OneRemovedManyOpen /\ RemovedStillOpenExpired))

\* C13 witness: the function has returned true for two open proposals of
\* which only the second is the removed action, expired.
C13_Witness ==
    /\ rem_result = Some(TRUE)
    /\ Len(rem_gov_state.proposals) = 2
    /\ rem_gov_state.proposals[1].actionId
          # rem_gov_state.nextRatifyState.expiredGovActions[1]
    /\ rem_gov_state.proposals[2].expiresAfter < rem_epoch

(***************************************************************************)
(* SpecPool: get_registered_pool_user with the fixture cache, the faucet   *)
(* and the ledger.                                                         *)
(***************************************************************************)
\* Largest no_of_users a call asks for.
MaxPoolUsers == 2
\* Number of pool users create_pool_users creates in one fixture scope.
MaxCreated == 4
\* get_address_deposit(): the deposit of a stake address registration.
StakeDeposit == 2

\* caching_key: empty (no caching) or a key of the fixture scope.
NoKey == ""

\* Mutant: the cached value is never taken.
CacheHitNever(value) == FALSE

\* if fixture_cache.value: a cached list counts when it is non-empty.
CacheHit(value) == value # <<>>

\* Lines 134-136: the cached value looked at, none when no key is given.
CachedValue(caching_key) ==
    IF caching_key = NoKey THEN <<>> ELSE fixture_cache[caching_key]

\* create_pool_users(no_of_addr=n): n new users.
CreatePoolUsers(n) == [k \in 1..n |-> PoolUser(users_created + k)]

\* The users of a list.
UsersOf(users) == { users[k] : k \in 1..Len(users) }

\* The call is entered with its arguments.
PoolCall ==
    /\ pu_pc = "idle"
    /\ \E key \in CacheKeys \cup {NoKey}, n \in 0..MaxPoolUsers :
          pu_args' = [caching_key |-> key, no_of_users |-> n]
    /\ pu_pc' = "called"
    /\ pu_users' = <<>>
    /\ pu_result' = None
    /\ pu_error' = NoError
    /\ pu_effects' = NoEffects
    /\ pu_tx' = NoTx
    /\ UNCHANGED <<fixture_cache, users_created, funded, registered, pu_first,
                   exceptPool>>

\* Lines 134-137: a key is given and the cache holds a value for it.
PoolCacheReturn ==
    /\ pu_pc = "called"
    /\ CacheHit(CachedValue(pu_args.caching_key))
    /\ pu_result' = Some(CachedValue(pu_args.caching_key))
    /\ pu_pc' = "returned"
    /\ UNCHANGED <<fixture_cache, users_created, funded, registered, pu_args,
                   pu_users, pu_error, pu_effects, pu_tx, pu_first, exceptPool>>

\* Lines 139-142: the users are created, and cached when a key is given;
\* create_pool_users may raise, and then nothing is cached.
PoolCreate ==
    /\ pu_pc = "called"
    /\ ~CacheHit(CachedValue(pu_args.caching_key))
    /\ users_created + pu_args.no_of_users <= MaxCreated
    /\ \/ /\ pu_users' = CreatePoolUsers(pu_args.no_of_users)
          /\ users_created' = users_created + pu_args.no_of_users
          /\ pu_effects' = [pu_effects EXCEPT !.created = pu_args.no_of_users]
          /\ fixture_cache' =
                IF pu_args.caching_key # NoKey
                THEN [fixture_cache EXCEPT ![pu_args.caching_key] =
                         CreatePoolUsers(pu_args.no_of_users)]
                ELSE fixture_cache
          /\ pu_pc' = "created"
          /\ UNCHANGED pu_error
       \/ /\ pu_pc' = "failed"
          /\ pu_error' = "create_pool_users failed"
          /\ UNCHANGED <<pu_users, users_created, pu_effects, fixture_cache>>
    /\ UNCHANGED <<funded, registered, pu_args, pu_result, pu_tx, pu_first,
                   exceptPool>>

\* Lines 145-151: the faucet funds each user in turn; a funding that raises
\* ends the call with the users before it funded.
PoolFund ==
    /\ pu_pc = "created"
    /\ \E j \in 0..Len(pu_users) :
          /\ funded' = funded \cup { pu_users[k] : k \in 1..j }
          /\ pu_effects' = [pu_effects EXCEPT !.fund_txs = j]
          /\ IF j = Len(pu_users)
             THEN pu_pc' = "funded" /\ UNCHANGED pu_error
             ELSE pu_pc' = "failed" /\ pu_error' = "fund_from_faucet failed"
    /\ UNCHANGED <<fixture_cache, users_created, registered, pu_args, pu_users,
                   pu_result, pu_tx, pu_first, exceptPool>>

\* Lines 154-175: one registration certificate per user, one transaction
\* from the first user's address. With no user pool_users[0] raises. The
\* ledger may refuse the transaction, and may leave addresses unregistered.
PoolRegister ==
    /\ pu_pc = "funded"
    /\ IF Len(pu_users) = 0
       THEN /\ pu_pc' = "failed"
            /\ pu_error' = "IndexError"
            /\ UNCHANGED <<registered, pu_effects, pu_tx>>
       ELSE \/ /\ pu_pc' = "failed"
               /\ pu_error' = "build_and_submit_tx failed"
               /\ UNCHANGED <<registered, pu_effects, pu_tx>>
            \/ \E fee \in 1..MaxFee, taken \in BOOLEAN :
               /\ registered' = IF taken THEN registered \cup UsersOf(pu_users)
                                ELSE registered
               /\ pu_effects' = [pu_effects EXCEPT !.reg_txs = 1]
               /\ pu_tx' = [txid |-> <<"reg", users_created>>, txins |-> InputBalance,
                            fee |-> fee,
                            out_amount |-> InputBalance - fee
                                             - Len(pu_users) * StakeDeposit]
               /\ pu_pc' = "submitted"
               /\ UNCHANGED pu_error
    /\ UNCHANGED <<fixture_cache, users_created, funded, pu_args, pu_users,
                   pu_result, pu_first, exceptPool>>

\* Lines 176-181: every stake address is asserted registered, then the
\* users are returned; the balance of the source address is not looked at.
PoolCheck ==
    /\ pu_pc = "submitted"
    /\ IF UsersOf(pu_users) \subseteq registered
       THEN /\ pu_pc' = "returned"
            /\ pu_result' = Some(pu_users)
            /\ UNCHANGED pu_error
       ELSE /\ pu_pc' = "failed"
            /\ pu_error' = "Stake address is not registered"
            /\ UNCHANGED pu_result
    /\ UNCHANGED <<fixture_cache, users_created, funded, registered, pu_args,
                   pu_users, pu_effects, pu_tx, pu_first, exceptPool>>

\* The call has returned or raised: its frame is gone; cache and ledger
\* stay. The value a key's first returning call returned is remembered.
PoolExit ==
    /\ pu_pc \in {"returned", "failed"}
    /\ pu_first' =
          IF /\ pu_pc = "returned"
             /\ pu_args.caching_key # NoKey
             /\ pu_first[pu_args.caching_key] = None
          THEN [pu_first EXCEPT ![pu_args.caching_key] = pu_result]
          ELSE pu_first
    /\ pu_pc' = "idle"
    /\ pu_args' = None
    /\ pu_users' = <<>>
    /\ pu_result' = None
    /\ pu_error' = NoError
    /\ pu_effects' = NoEffects
    /\ pu_tx' = NoTx
    /\ UNCHANGED <<fixture_cache, users_created, funded, registered, exceptPool>>

InitPool ==
    /\ PoolIdle
    /\ VoteIdle /\ GovIdle
    /\ ResIdle /\ RemIdle /\ CmdIdle /\ CtxIdle /\ DRepIdle /\ DelegIdle
    /\ OnceIdle

NextPool ==
    \/ PoolCall
    \/ PoolCacheReturn
    \/ PoolCreate
    \/ PoolFund
    \/ PoolRegister
    \/ PoolCheck
    \/ PoolExit

SpecPool == InitPool /\ [][NextPool]_vars

(***************************************************************************)
(* Claims about get_registered_pool_user (checked under SpecPool).         *)
(***************************************************************************)
\* An earlier call with the running call's key has returned a value.
SecondCallOfKey ==
    /\ pu_pc = "returned"
    /\ pu_args.caching_key # NoKey
    /\ pu_first[pu_args.caching_key] # None

\* C14: a call with a non-empty cache key that follows a returned call with
\* the same key returns the identical participant set and creates no key,
\* funds nothing and submits no registration.
C14_SecondCallReturnsCached ==
    SecondCallOfKey =>
        /\ pu_result = pu_first[pu_args.caching_key]
        /\ pu_effects = NoEffects

\* C14 witness: a second call of a key has returned the two users the first
\* call of the key returned, though it asked for one.
C14_Witness ==
    /\ SecondCallOfKey
    /\ pu_args.no_of_users = 1
    /\ Len(pu_result[1]) = 2
    /\ pu_result = pu_first[pu_args.caching_key]

(***************************************************************************)
(* Claim about the balance assertions (checked under Spec).                *)
(***************************************************************************)
\* The deposits the submitted transaction of the running routine pays.
DepositDelta ==
    IF InProposal THEN Len(submitted[1].proposal_files) * GovActionDeposit ELSE 0

\* C15: every operation that submits a fund-moving transaction (vote
\* submission, the two proposals, committee resignation) has asserted,
\* when it returns, that the balance of the source address after the
\* transaction is the balance before less the fee and the deposit delta.
C15_BalanceAssertedBeforeReturn ==
    (routine # NoRoutine /\ pc = "returned") =>
        out_amount = tx_output.txins - tx_output.fee - DepositDelta

\* C21: in any sequence of calls with the same non-empty cache key, also
\* when an earlier call failed after the cache was populated, every
\* participant set the builder returns has been funded and has each stake
\* address registered.
C21_ReturnedSetFundedAndRegistered ==
    (pu_pc = "returned" /\ pu_args.caching_key # NoKey) =>
        /\ UsersOf(pu_result[1]) \subseteq funded
        /\ UsersOf(pu_result[1]) \subseteq registered

(***************************************************************************)
(* SpecCmd: helpers.run_command against an external command.               *)
(***************************************************************************)
\* Largest number of bytes the command writes to stdout or to stderr.
MaxBytes == 2

\* The bytes the command may write: "A", "B" and 0xff, which no UTF-8 text
\* holds.
ByteVals == {65, 66, 255}
InvalidBytes == {255}
Chr(b) == IF b = 65 THEN "A" ELSE "B"
Ord(c) == IF c = "A" THEN 65 ELSE 66

\* What stdout and stderr of the command may hold.
ByteStrings == SeqsUpTo(ByteVals, MaxBytes)

\* bytes.decode(): the text of the bytes; UnicodeDecodeError when a byte is
\* not UTF-8.
DecodeFails(bytes) == \E k \in 1..Len(bytes) : bytes[k] \in InvalidBytes
decode(bytes) == [k \in 1..Len(bytes) |-> Chr(bytes[k])]

\* What the external command does when run, and how it is called.
CommandRuns ==
    [ignore_fail : BOOLEAN, workdir : {"", "/work"}, spawns : BOOLEAN,
     returncode : {0, 1}, stdout : ByteStrings, stderr : ByteStrings]

Returned(value) == [kind |-> "return", value |-> value]
Raised(exc, err_dec) == [kind |-> "raise", exc |-> exc, err_dec |-> err_dec]

\* Lines 125-127: err_dec = stderr.decode(); err_dec = err_dec or
\* stdout.decode(); raise AssertionError(... err_dec). Each decode may raise
\* instead.
ErrDec(stdout, stderr) ==
    IF DecodeFails(stderr)
    THEN Raised("UnicodeDecodeError", <<>>)
    ELSE IF decode(stderr) # <<>>
    THEN Raised("AssertionError", decode(stderr))
    ELSE IF DecodeFails(stdout)
    THEN Raised("UnicodeDecodeError", <<>>)
    ELSE Raised("AssertionError", decode(stdout))

\* run_command: the outcome of the call.
run_command(a) ==
    IF ~a.spawns THEN Raised("OSError", <<>>)
    ELSE IF ~a.ignore_fail /\ a.returncode # 0 THEN ErrDec(a.stdout, a.stderr)
    ELSE Returned(a.stdout)

InitCmd ==
    /\ cmd_args \in { Some(a) : a \in CommandRuns }
    /\ cmd_result = None
    /\ CtxIdle
    /\ VoteIdle /\ GovIdle
    /\ ResIdle /\ RemIdle /\ PoolIdle /\ DRepIdle /\ DelegIdle
    /\ OnceIdle

\* The call; with a workdir the command is started inside change_cwd, which
\* restores the working directory whether or not Popen raises.
RunCommand ==
    /\ cmd_args # None
    /\ cmd_result = None
    /\ cmd_result' = Some(run_command(cmd_args[1]))
    /\ cwd' = cwd
    /\ UNCHANGED <<cmd_args, exceptCmd>>

NextCmd == RunCommand

SpecCmd == InitCmd /\ [][NextCmd]_vars

(***************************************************************************)
(* Claim about run_command (checked under SpecCmd).                        *)
(***************************************************************************)
\* str.encode(): the bytes of a text.
encode(text) == [k \in 1..Len(text) |-> Ord(text[k])]

\* The command has run to its exit and run_command has ended.
CommandExited == cmd_result # None /\ cmd_args[1].spawns

\* C16: run_command returns the captured standard output when the command
\* exits with code 0 or ignore_fail is set; otherwise it raises a failure
\* whose message carries the captured standard error, or the captured
\* standard output if the standard error is empty.
C16_ReturnsStdoutOrRaisesStderr ==
    CommandExited =>
        LET a == cmd_args[1]
            r == cmd_result[1]
        IN  IF a.returncode = 0 \/ a.ignore_fail
            THEN r = Returned(a.stdout)
            ELSE /\ r.kind = "raise"
                 /\ r.exc = "AssertionError"
                 /\ encode(r.err_dec) = (IF a.stderr # <<>> THEN a.stderr ELSE a.stdout)

(***************************************************************************)
(* SpecCtx: the context managers helpers.environ and helpers.change_cwd    *)
(* around a body that may itself change the environment and the working    *)
(* directory.                                                              *)
(***************************************************************************)
\* Largest number of scopes open at once.
MaxDepth == 2

\* The dicts handed to environ, as (key, value) pairs in insertion order.
EnvDicts ==
    { <<<<"A", "1">>>>, <<<<"B", "1">>>>,
      <<<<"A", "1">>, <<"B", "1">>>>, <<<<"B", "1">>, <<"A", "1">>>> }

\* The values a body may give a variable.
EnvValues == {"1", "2"}

\* Line 87: original_env = {key: os.environ.get(key) for key in env}
OriginalEnv(env) == [k \in 1..Len(env) |-> <<env[k][1], os_environ[env[k][1]]>>]

\* Line 88: os.environ.update(env)
RECURSIVE EnvUpdate(_, _, _)
EnvUpdate(environment, env, k) ==
    IF k > Len(env) THEN environment
    ELSE EnvUpdate([environment EXCEPT ![env[k][1]] = env[k][2]], env, k + 1)

\* Lines 92-96: the loop of the finally clause, from item k on. Deleting a
\* variable that is not set raises KeyError and ends the loop.
RECURSIVE EnvRestore(_, _, _)
EnvRestore(environment, original_env, k) ==
    IF k > Len(original_env) THEN [environ |-> environment, raised |-> NoError]
    ELSE LET key == original_env[k][1]
             value == original_env[k][2]
         IN  IF value = Absent
             THEN IF environment[key] = Absent
                  THEN [environ |-> environment, raised |-> "KeyError"]
                  ELSE EnvRestore([environment EXCEPT ![key] = Absent],
                                  original_env, k + 1)
             ELSE EnvRestore([environment EXCEPT ![key] = value],
                             original_env, k + 1)

\* with environ(env): lines 87-88, up to the yield.
EnterEnviron ==
    /\ Len(scopes) < MaxDepth
    /\ \E env \in EnvDicts :
          /\ scopes' = Append(scopes,
                [kind |-> "environ", env |-> env, original_env |-> OriginalEnv(env),
                 entry_environ |-> os_environ, entry_cwd |-> cwd])
          /\ os_environ' = EnvUpdate(os_environ, env, 1)
    /\ ctx_exit' = None
    /\ UNCHANGED <<cwd, exceptCtx>>

\* with change_cwd(dir_path): lines 54-55, up to the yield.
EnterChangeCwd ==
    /\ Len(scopes) < MaxDepth
    /\ \E dir_path \in Dirs :
          /\ scopes' = Append(scopes,
                [kind |-> "change_cwd", dir_path |-> dir_path, orig_cwd |-> cwd,
                 entry_environ |-> os_environ, entry_cwd |-> cwd])
          /\ cwd' = dir_path
    /\ ctx_exit' = None
    /\ UNCHANGED <<os_environ, exceptCtx>>

\* The body of a scope sets a variable.
BodySetenv ==
    /\ scopes # <<>>
    /\ \E key \in EnvVars, value \in EnvValues :
          /\ os_environ[key] # value
          /\ os_environ' = [os_environ EXCEPT ![key] = value]
    /\ ctx_exit' = None
    /\ UNCHANGED <<cwd, scopes, exceptCtx>>

\* The body of a scope removes a variable.
BodyDelenv ==
    /\ scopes # <<>>
    /\ \E key \in EnvVars :
          /\ os_environ[key] # Absent
          /\ os_environ' = [os_environ EXCEPT ![key] = Absent]
    /\ ctx_exit' = None
    /\ UNCHANGED <<cwd, scopes, exceptCtx>>

\* The body of a scope changes the working directory.
BodyChdir ==
    /\ scopes # <<>>
    /\ \E dir_path \in Dirs :
          /\ cwd # dir_path
          /\ cwd' = dir_path
    /\ ctx_exit' = None
    /\ UNCHANGED <<os_environ, scopes, exceptCtx>>

\* The innermost scope.
Top == scopes[Len(scopes)]

\* The body of the innermost environ scope ends, normally or by an
\* exception: the finally clause of lines 91-96 runs.
ExitEnviron ==
    /\ scopes # <<>>
    /\ Top.kind = "environ"
    /\ \E how \in {"normal", "exception"} :
          LET restored == EnvRestore(os_environ, Top.original_env, 1)
          IN  /\ os_environ' = restored.environ
              /\ ctx_exit' = Some([scope |-> Top, how |-> how,
                                   raised |-> restored.raised])
    /\ scopes' = SubSeq(scopes, 1, Len(scopes) - 1)
    /\ UNCHANGED <<cwd, exceptCtx>>

\* The body of the innermost change_cwd scope ends, normally or by an
\* exception: the finally clause of lines 59-61 runs.
ExitChangeCwd ==
    /\ scopes # <<>>
    /\ Top.kind = "change_cwd"
    /\ \E how \in {"normal", "exception"} :
          ctx_exit' = Some([scope |-> Top, how |-> how, raised |-> NoError])
    /\ cwd' = Top.orig_cwd
    /\ scopes' = SubSeq(scopes, 1, Len(scopes) - 1)
    /\ UNCHANGED <<os_environ, exceptCtx>>

\* The process starts with any environment, in its home directory.
InitCtx ==
    /\ os_environ \in [EnvVars -> {Absent, "2"}]
    /\ cwd = "/home"
    /\ scopes = <<>>
    /\ ctx_exit = None
    /\ CmdIdle
    /\ VoteIdle /\ GovIdle
    /\ ResIdle /\ RemIdle /\ PoolIdle /\ DRepIdle /\ DelegIdle
    /\ OnceIdle

NextCtx ==
    \/ EnterEnviron
    \/ EnterChangeCwd
    \/ BodySetenv
    \/ BodyDelenv
    \/ BodyChdir
    \/ ExitEnviron
    \/ ExitChangeCwd

SpecCtx == InitCtx /\ [][NextCtx]_vars

(***************************************************************************)
(* Claim about environ and change_cwd (checked under SpecCtx).             *)
(***************************************************************************)
\* The variables the dict of an environ scope names.
NamedIn(env) == { env[k][1] : k \in 1..Len(env) }

\* C17: when a scope of environ(env) or change_cwd(dir) has been left,
\* normally or by an exception and whatever its body did, every variable
\* named in env has the value it had on entry (or is absent if it was) and
\* the working directory is the one on entry.
C17_ContextRestoredOnExit ==
    ctx_exit # None =>
        LET left == ctx_exit[1].scope
        IN  /\ left.kind = "environ" =>
                 \A key \in NamedIn(left.env) : os_environ[key] = left.entry_environ[key]
            /\ left.kind = "change_cwd" => cwd = left.entry_cwd

(***************************************************************************)
(* SpecDRep: TestDReps.test_register_and_retire_drep against the ledger.   *)
(***************************************************************************)
\* reg_drep.deposit: the deposit of a DRep registration.
DRepDeposit == 4

\* The key hash of the scenario's DRep key, and another one.
DRepId == <<"drep", "hash">>
OtherDRepId == <<"drep", "other">>

\* The transactions of the scenario.
RegTxId == <<"reg">>
RetTxId == <<"ret">>

\* The sum of the amounts of a set of unspent outputs.
RECURSIVE calculate_utxos_balance(_)
calculate_utxos_balance(utxos) ==
    IF utxos = {} THEN 0
    ELSE LET u == CHOOSE x \in utxos : TRUE
         IN  u.amount + calculate_utxos_balance(utxos \ {u})

\* get_utxo(tx_raw_output=tx) filtered by payment_addr: the unspent outputs
\* of the transaction at the address.
get_utxo(txid) == { u \in addr_utxos : u.tx = txid }

\* drep_state(drep_vkey_file): the records the ledger holds.
drep_state == IF drep_registry = {} THEN <<>>
              ELSE <<[keyHash |-> CHOOSE h \in drep_registry : TRUE]>>

\* The inputs a transaction built from payment_addr may take: some of the
\* unspent outputs of the address.
TxIns == (SUBSET addr_utxos) \ {{}}

\* The ledger takes a transaction of payment_addr: the inputs are spent and
\* the change is the new output of the address.
LedgerSpend(txins, txid, amount) ==
    (addr_utxos \ txins) \cup {[tx |-> txid, amount |-> amount]}

\* The scenario has evaluated one more assertion, on the outputs of tx.
Checked(name, txid) == Append(drep_checked, [check |-> name, tx |-> txid])

\* Lines 142-148: register_drep registers a new DRep from payment_addr. A
\* ledger at fault registers nothing or another key hash.
RegisterDRep ==
    /\ drep_pc = "idle"
    /\ drep_args # None
    /\ \E txins \in TxIns, fee \in 1..MaxFee,
          reg \in {{DRepId}, {}, {OtherDRepId}} :
          LET balance == calculate_utxos_balance(txins)
          IN  /\ reg_drep' = Some([drep_id |-> DRepId, deposit |-> DRepDeposit,
                                   tx_output |-> [txid |-> RegTxId, txins |-> balance,
                                                  fee |-> fee]])
              /\ addr_utxos' = LedgerSpend(txins, RegTxId, balance - fee - DRepDeposit)
              /\ drep_registry' = reg
    /\ drep_pc' = "registered"
    /\ UNCHANGED <<drep_args, reg_drep_state, tx_output_ret, ret_drep_state,
                   drep_checked, drep_error, exceptDRep>>

\* Lines 150-156: the balance after the registration.
CheckRegBalance ==
    /\ drep_pc = "registered"
    /\ drep_checked' = Checked("reg_balance", reg_drep[1].tx_output.txid)
    /\ LET reg_out_utxos == get_utxo(reg_drep[1].tx_output.txid)
       IN  IF reg_out_utxos = {}
           THEN drep_pc' = "failed" /\ drep_error' = "IndexError"
           ELSE IF (CHOOSE u \in reg_out_utxos : TRUE).amount
                      = reg_drep[1].tx_output.txins - reg_drep[1].tx_output.fee
                          - reg_drep[1].deposit
           THEN drep_pc' = "reg_balance_ok" /\ UNCHANGED drep_error
           ELSE drep_pc' = "failed" /\ drep_error' = "Incorrect balance"
    /\ UNCHANGED <<drep_args, drep_registry, addr_utxos, reg_drep, reg_drep_state,
                   tx_output_ret, ret_drep_state, exceptDRep>>

\* Mutant: any record returned counts as the registration.
DRepWasRegisteredAny(state, drep_id) == state # <<>>

\* Line 161: reg_drep_state[0][0]["keyHash"] == reg_drep.drep_id
DRepWasRegistered(state, drep_id) == state # <<>> /\ state[1].keyHash = drep_id

\* Lines 158-161: the DRep state is queried by the key and the key hash
\* asserted.
CheckRegistered ==
    /\ drep_pc = "reg_balance_ok"
    /\ reg_drep_state' = Some(drep_state)
    /\ drep_checked' = Checked("registered", reg_drep[1].tx_output.txid)
    /\ IF DRepWasRegistered(drep_state, reg_drep[1].drep_id)
       THEN drep_pc' = "reg_verified" /\ UNCHANGED drep_error
       ELSE /\ drep_pc' = "failed"
            /\ drep_error' = IF drep_state = <<>> THEN "IndexError"
                             ELSE "DRep was not registered"
    /\ UNCHANGED <<drep_args, drep_registry, addr_utxos, reg_drep, tx_output_ret,
                   ret_drep_state, exceptDRep>>

\* Lines 165-208: the retirement certificate is built, and the transaction
\* built (by the build command or from a calculated fee), signed and
\* submitted. The ledger refunds the deposit and drops the DRep; at fault
\* it keeps the DRep.
SubmitRetirement ==
    /\ drep_pc = "reg_verified"
    /\ \E txins \in TxIns, fee \in 1..MaxFee, retired \in BOOLEAN :
          LET balance == calculate_utxos_balance(txins)
          IN  /\ tx_output_ret' = [txid |-> RetTxId, txins |-> balance, fee |-> fee]
              /\ addr_utxos' = LedgerSpend(txins, RetTxId,
                                           balance - fee + reg_drep[1].deposit)
              /\ drep_registry' = IF retired THEN {} ELSE drep_registry
    /\ drep_pc' = "ret_submitted"
    /\ UNCHANGED <<drep_args, reg_drep, reg_drep_state, ret_drep_state,
                   drep_checked, drep_error, exceptDRep>>

\* Lines 210-213: the DRep state is queried again and asserted empty.
CheckRetired ==
    /\ drep_pc = "ret_submitted"
    /\ ret_drep_state' = Some(drep_state)
    /\ drep_checked' = Checked("retired", tx_output_ret.txid)
    /\ IF drep_state = <<>>
       THEN drep_pc' = "ret_verified" /\ UNCHANGED drep_error
       ELSE drep_pc' = "failed" /\ drep_error' = "DRep was not retired"
    /\ UNCHANGED <<drep_args, drep_registry, addr_utxos, reg_drep, reg_drep_state,
                   tx_output_ret, exceptDRep>>

\* Lines 215-221: the outputs of reg_drep.tx_output are queried and the
\* amount at payment_addr compared with the inputs of the retirement less
\* its fee plus the deposit.
CheckRetBalance ==
    /\ drep_pc = "ret_verified"
    /\ drep_checked' = Checked("ret_balance", reg_drep[1].tx_output.txid)
    /\ LET ret_out_utxos == get_utxo(reg_drep[1].tx_output.txid)
       IN  IF ret_out_utxos = {}
           THEN drep_pc' = "failed" /\ drep_error' = "IndexError"
           ELSE IF (CHOOSE u \in ret_out_utxos : TRUE).amount
                      = tx_output_ret.txins - tx_output_ret.fee + reg_drep[1].deposit
           THEN drep_pc' = "passed" /\ UNCHANGED drep_error
           ELSE drep_pc' = "failed" /\ drep_error' = "Incorrect balance"
    /\ UNCHANGED <<drep_args, drep_registry, addr_utxos, reg_drep, reg_drep_state,
                   tx_output_ret, ret_drep_state, exceptDRep>>

\* The scenario starts with payment_addr holding one or two funded outputs.
InitDRep ==
    /\ drep_pc = "idle"
    /\ drep_args \in { Some([use_build_cmd |-> b, submit_method |-> m]) :
                         b \in BOOLEAN, m \in {"cli", "api"} }
    /\ drep_registry = {}
    /\ addr_utxos \in { {[tx |-> <<"fund", 1>>, amount |-> InputBalance]},
                        {[tx |-> <<"fund", 1>>, amount |-> InputBalance],
                         [tx |-> <<"fund", 2>>, amount |-> InputBalance]} }
    /\ reg_drep = None
    /\ reg_drep_state = None
    /\ tx_output_ret = NoTx
    /\ ret_drep_state = None
    /\ drep_checked = <<>>
    /\ drep_error = NoError
    /\ VoteIdle /\ GovIdle
    /\ ResIdle /\ RemIdle /\ PoolIdle /\ CmdIdle /\ CtxIdle /\ DelegIdle
    /\ OnceIdle

NextDRep ==
    \/ RegisterDRep
    \/ CheckRegBalance
    \/ CheckRegistered
    \/ SubmitRetirement
    \/ CheckRetired
    \/ CheckRetBalance

SpecDRep == InitDRep /\ [][NextDRep]_vars

(***************************************************************************)
(* Claims about the register-then-retire scenario (checked under SpecDRep).*)
(***************************************************************************)
\* The retirement transaction has been submitted.
RetirementSubmitted == tx_output_ret # NoTx

\* C18: once the scenario is past the registration check, the state query
\* by the DRep's key has returned a record whose key hash is the
\* registration's drep id; once it is past the retirement check, the same
\* query has returned an empty result; and the retirement is submitted only
\* after the registration has been verified.
C18_RegisteredThenRetired ==
    /\ drep_pc \in {"reg_verified", "ret_submitted", "ret_verified", "passed"} =>
          /\ reg_drep_state # None
          /\ reg_drep_state[1] # <<>>
          /\ reg_drep_state[1][1].keyHash = reg_drep[1].drep_id
    /\ drep_pc \in {"ret_verified", "passed"} =>
          /\ ret_drep_state = Some(<<>>)
          /\ drep_registry = {}
    /\ RetirementSubmitted =>
          /\ reg_drep_state # None
          /\ reg_drep_state[1] # <<>>
          /\ reg_drep_state[1][1].keyHash = reg_drep[1].drep_id

\* C18 witness: the retirement has been verified after a verified
\* registration.
C18_Witness ==
    /\ drep_pc = "ret_verified"
    /\ RetirementSubmitted
    /\ reg_drep_state = Some(<<[keyHash |-> DRepId]>>)
    /\ ret_drep_state = Some(<<>>)

\* The final balance check has been evaluated.
FinalCheckDone ==
    /\ drep_checked # <<>>
    /\ drep_checked[Len(drep_checked)].check = "ret_balance"

\* C19: after the retirement the output of the retirement transaction at
\* the funding address is the retirement's inputs less its fee plus the
\* refunded deposit, and the scenario's final check compares exactly this
\* output.
C19_FinalCheckOnRetirementOutput ==
    /\ RetirementSubmitted =>
          \E u \in get_utxo(tx_output_ret.txid) :
              u.amount = tx_output_ret.txins - tx_output_ret.fee + DRepDeposit
    /\ FinalCheckDone =>
          drep_checked[Len(drep_checked)].tx = tx_output_ret.txid

(***************************************************************************)
(* SpecDeleg: _check_delegation applied to a delegation state.             *)
(***************************************************************************)
\* Stake key hashes and DRep ids; the two predefined DReps are named by
\* "always_abstain" and "always_no_confidence".
StakeHashes == {"hash1", "hash2"}
CustomDRepIds == {"id1", "id2"}
DRepIds == {"always_abstain", "always_no_confidence"} \cup CustomDRepIds

\* f"keyHash-{stake_addr_hash}" and f"drep-keyHash-{drep_id}"
KeyHashKey(stake_addr_hash) == <<"keyHash-", stake_addr_hash>>
DRepKeyHash(drep_id) == <<"drep-keyHash-", drep_id>>
ALWAYS_ABSTAIN == <<"drep-alwaysAbstain">>
ALWAYS_NO_CONFIDENCE == <<"drep-alwaysNoConfidence">>

\* What a credential record may hold as its drep field: nothing, or the
\* name of a DRep.
DRepFields ==
    {None} \cup { Some(d) : d \in {ALWAYS_ABSTAIN, ALWAYS_NO_CONFIDENCE}
                               \cup { DRepKeyHash(i) : i \in CustomDRepIds } }

\* deleg_state["dstate"]["unified"]["credentials"]: for each key, no record
\* or a record.
Credentials ==
    [ { KeyHashKey(h) : h \in StakeHashes } -> {None} \cup { Some([drep |-> f]) : f \in DRepFields } ]

\* Mutant: the predefined DReps are expected under their key-hash name.
expected_drep_custom_only(drep_id) == DRepKeyHash(drep_id)

\* Lines 108-112: expected_drep
expected_drep(drep_id) ==
    IF drep_id = "always_abstain" THEN ALWAYS_ABSTAIN
    ELSE IF drep_id = "always_no_confidence" THEN ALWAYS_NO_CONFIDENCE
    ELSE DRepKeyHash(drep_id)

\* _check_delegation: whether the assertion of line 114 holds.
check_delegation(drep_records, drep_id, stake_addr_hash) ==
    LET stake_addr_key == KeyHashKey(stake_addr_hash)
        stake_addr_val == IF drep_records[stake_addr_key] # None
                          THEN drep_records[stake_addr_key][1]
                          ELSE [drep |-> None]
    IN  stake_addr_val.drep = Some(expected_drep(drep_id))

InitDeleg ==
    /\ deleg_args \in { Some([drep_records |-> c, drep_id |-> i, stake_addr_hash |-> h]) :
                          c \in Credentials, i \in DRepIds, h \in StakeHashes }
    /\ deleg_result = Unset
    /\ VoteIdle /\ GovIdle
    /\ ResIdle /\ RemIdle /\ PoolIdle /\ CmdIdle /\ CtxIdle /\ DRepIdle
    /\ OnceIdle

CheckDelegation ==
    /\ deleg_args # None
    /\ deleg_result = Unset
    /\ deleg_result' =
          IF check_delegation(deleg_args[1].drep_records, deleg_args[1].drep_id,
                              deleg_args[1].stake_addr_hash)
          THEN "passed" ELSE "failed"
    /\ UNCHANGED <<deleg_args, exceptDeleg>>

NextDeleg == CheckDelegation

SpecDeleg == InitDeleg /\ [][NextDeleg]_vars

(***************************************************************************)
(* Claim about _check_delegation (checked under SpecDeleg).                *)
(***************************************************************************)
\* The record of the stake key hash the check was called for, if any.
DelegRecord ==
    deleg_args[1].drep_records[<<"keyHash-", deleg_args[1].stake_addr_hash>>]

\* The drep field the claim names for the drep id the check was called for.
ClaimedDRepField ==
    CASE deleg_args[1].drep_id = "always_abstain" -> <<"drep-alwaysAbstain">>
      [] deleg_args[1].drep_id = "always_no_confidence" -> <<"drep-alwaysNoConfidence">>
      [] OTHER -> <<"drep-keyHash-", deleg_args[1].drep_id>>

\* C20: _check_delegation passes if and only if the delegation state has a
\* credential record under "keyHash-<stake key hash>" whose drep field is
\* "drep-alwaysAbstain" for "always_abstain", "drep-alwaysNoConfidence" for
\* "always_no_confidence" and "drep-keyHash-<id>" for any other id; with no
\* record or no drep field it fails.
C20_PassesIffDelegatedToDRep ==
    deleg_result # Unset =>
        /\ deleg_result = "passed" <=>
              /\ DelegRecord # None
              /\ DelegRecord[1].drep # None
              /\ DelegRecord[1].drep[1] = ClaimedDRepField
        /\ (DelegRecord = None \/ DelegRecord[1].drep = None) => deleg_result = "failed"

\* C20 witness: the check has passed for a stake address delegated to
\* always-abstain while the other address is delegated to a custom DRep.
C20_Witness ==
    /\ deleg_result = "passed"
    /\ deleg_args[1].drep_id = "always_abstain"
    /\ deleg_args[1].stake_addr_hash = "hash2"
    /\ deleg_args[1].drep_records[<<"keyHash-", "hash1">>]
          = Some([drep |-> Some(<<"drep-keyHash-", "id1">>)])


\* ---------------------------------------------------------------------
\* SpecOnce: callonce and get_current_commit
\* ---------------------------------------------------------------------

\* How many calls of the wrapper are followed.
MaxCalls == 3

\* Python values: a tag and, for a string, its characters.
PyNone == <<"NoneType", <<>>>>

PyStr(chars) == <<"str", chars>>

\* bool(value): None and the empty string are false.
PyTruthy(value) == value[1] = "str" /\ value[2] # <<>>

Whitespace == {" ", "\n"}

RECURSIVE lstrip(_)
lstrip(chars) ==
    IF chars # <<>> /\ Head(chars) \in Whitespace THEN lstrip(Tail(chars)) ELSE chars

RECURSIVE rstrip(_)
rstrip(chars) ==
    IF chars # <<>> /\ chars[Len(chars)] \in Whitespace
    THEN rstrip(SubSeq(chars, 1, Len(chars) - 1))
    ELSE chars

\* str.strip()
strip(chars) == rstrip(lstrip(chars))

\* What `git rev-parse HEAD` can print.
GitOutputs == { <<"h", "1", "\n">>, <<"\n">> }

\* The values GIT_REVISION takes.
Revisions == { None, Some(<<>>), Some(<<"r", "1">>), Some(<<"r", "2">>) }

FuncReturns(value) == [kind |-> "return", value |-> value]

FuncRaises == [kind |-> "raise", value |-> PyNone]

\* get_current_commit, undecorated: GIT_REVISION when it is set and not
\* empty, otherwise the stripped output of git, whose run_command raises
\* when git fails.
get_current_commit(environ_get) ==
    IF environ_get # None /\ environ_get[1] # <<>>
    THEN { FuncReturns(PyStr(environ_get[1])) }
    ELSE { FuncReturns(PyStr(strip(out))) : out \in GitOutputs } \cup { FuncRaises }

\* The decorated functions followed: get_current_commit, and a function
\* of one argument that returns None, the empty string or its argument,
\* or raises.
Funcs == { "get_current_commit", "func" }

FuncArgs(f) == IF f = "get_current_commit" THEN { <<>> } ELSE { <<"a">>, <<"b">> }

func(f, fargs, environ_get) ==
    IF f = "get_current_commit"
    THEN get_current_commit(environ_get)
    ELSE { FuncReturns(PyNone), FuncReturns(PyStr(<<>>)), FuncReturns(PyStr(fargs)),
           FuncRaises }

\* `if result:` on a list whose first element is tested instead.
CacheFilledTruthy(cached) == cached # <<>> /\ PyTruthy(cached[1])

\* `if result:`: the list has an element.
CacheFilled(cached) == cached # <<>>

InitOnce ==
    /\ once_func \in Funcs
    /\ once_result = <<>>
    /\ git_revision \in Revisions
    /\ once_calls = NoCalls
    /\ once_last = None
    /\ once_first = None
    /\ VoteIdle /\ GovIdle
    /\ ResIdle /\ RemIdle /\ PoolIdle /\ CmdIdle /\ CtxIdle /\ DRepIdle /\ DelegIdle

\* One call of the wrapper.
CallOnce ==
    /\ once_func # NoFunc
    /\ once_calls.wrapper < MaxCalls
    /\ \E fargs \in FuncArgs(once_func) :
         IF CacheFilled(once_result)
         THEN /\ once_last' = Some([kind |-> "return", value |-> once_result[1],
                                    invoked |-> FALSE])
              /\ once_calls' = [once_calls EXCEPT !.wrapper = @ + 1]
              /\ UNCHANGED <<once_result, once_first>>
         ELSE \E retval \in func(once_func, fargs, git_revision) :
                /\ once_last' = Some([kind |-> retval.kind, value |-> retval.value,
                                      invoked |-> TRUE])
                /\ IF retval.kind = "return"
                   THEN /\ once_result' = Append(once_result, retval.value)
                        /\ once_calls' = [once_calls EXCEPT !.wrapper = @ + 1,
                                                            !.returned = @ + 1]
                        /\ once_first' =
                              IF once_first = None
                              THEN Some([value |-> retval.value,
                                         call |-> once_calls.wrapper + 1])
                              ELSE once_first
                   ELSE /\ once_calls' = [once_calls EXCEPT !.wrapper = @ + 1,
                                                            !.raised = @ + 1]
                        /\ UNCHANGED <<once_result, once_first>>
    /\ UNCHANGED <<once_func, git_revision, exceptOnce>>

\* The environment changes between two calls.
SetGitRevision ==
    /\ once_func # NoFunc
    /\ \E r \in Revisions \ {git_revision} : git_revision' = r
    /\ UNCHANGED <<once_func, once_result, once_calls, once_last, once_first,
                   exceptOnce>>

NextOnce ==
    \/ CallOnce
    \/ SetGitRevision

SpecOnce == InitOnce /\ [][NextOnce]_vars

\* C22: the wrapped function returns at most once; every call that returns
\* gives the first value the function returned, whatever the arguments, the
\* value (None and the empty string included) and the present GIT_REVISION;
\* no call after the one that computed the value invokes the function; a
\* call that raises leaves the cache empty, so every call up to the first
\* return invokes the function.
C22_ComputedAtMostOnce ==
    /\ once_calls.returned <= 1
    /\ once_first = None <=> once_calls.returned = 0
    /\ once_calls.returned = 0 =>
          /\ once_result = <<>>
          /\ once_calls.raised = once_calls.wrapper
    /\ once_first # None =>
          /\ once_result = <<once_first[1].value>>
          /\ once_calls.raised + 1 = once_first[1].call
    /\ (once_last # None /\ once_last[1].kind = "return") =>
          /\ once_first # None
          /\ once_last[1].value = once_first[1].value
          /\ once_last[1].invoked <=> once_calls.wrapper = once_first[1].call
    /\ (once_last # None /\ once_last[1].kind = "raise") =>
          once_last[1].invoked /\ once_result = <<>>

\* get_current_commit raised, then returned the empty string printed by
\* git, GIT_REVISION was set afterwards, and a third call was answered from
\* the cache.
C22_Witness ==
    /\ once_func = "get_current_commit"
    /\ once_calls = [wrapper |-> 3, returned |-> 1, raised |-> 1]
    /\ once_first = Some([value |-> PyStr(<<>>), call |-> 2])
    /\ git_revision = Some(<<"r", "1">>)
    /\ once_last = Some([kind |-> "return", value |-> PyStr(<<>>), invoked |-> FALSE])

=============================================================================
